---------------------------- MODULE Spec2Model ----------------------------
(***************************************************************************)
(* A model of the spartan-tpms field constructors, calibration curves,     *)
(* box composers, the marching_cubes adapter and the command-line entry    *)
(* point.                                                                  *)
(*                                                                         *)
(* Numbers.  The program computes in floating point; the model computes in *)
(* fixed point.  Dimensionless quantities (porosity, thickness fraction,   *)
(* isovalue) are integers counting units of 1e-8, which is the resolution  *)
(* of the calibration tables in the source, so every table entry is        *)
(* represented exactly.  Lengths (wavelengths, thicknesses) are integers   *)
(* in an arbitrary length unit.  Products that would not fit a machine     *)
(* integer are taken with MulDiv, which is exact floor(a*b/c); the gyroid  *)
(* polynomial, whose coefficients reach 8758, is evaluated on pairs        *)
(* <<whole part, decimals>>, each Horner step rounded down to 1e-8.        *)
(*                                                                         *)
(* Python values.  An optional argument is the empty tuple None or the     *)
(* one-element tuple Some(v).  A call ends in an outcome record, either    *)
(* Raise(error, where) or Return(v).                                       *)
(***************************************************************************)
EXTENDS Integers, Sequences, FiniteSets, TLC

VARIABLES pc, op, args, out, mc

vars == <<pc, op, args, out, mc>>

-----------------------------------------------------------------------------
(* Fixed point and Python values *)

\* 1.0 and 0.5 in fixed point.
Unit == 10000 * 10000
Half == Unit \div 2

None == <<>>
Some(v) == <<v>>
IsNone(x) == x = <<>>
Val(x) == x[1]

Raise(error, where) ==
    [kind |-> "raise", error |-> error, where |-> where, warned |-> FALSE]
Return(v) == [kind |-> "return", v |-> v, warned |-> FALSE]
Raised(o) == o.kind = "raise"
Returned(o) == o.kind = "return"

\* <<q, r>> with a*b = q*c + r and 0 <= r < c, for 0 <= a < c and b >= 0, by
\* binary decomposition of b, so that no intermediate exceeds 3*c or the result.
RECURSIVE MulDivQR(_, _, _)
MulDivQR(a, b, c) ==
    IF b = 0 THEN <<0, 0>>
    ELSE LET h == MulDivQR(a, b \div 2, c)
             rs == 2 * h[2] + (IF (b % 2) = 1 THEN a ELSE 0)
         IN  <<2 * h[1] + (rs \div c), rs % c>>

\* floor(a*b/c) for b >= 0 and c > 0: a = (a \div c)*c + (a % c).
MulDiv(a, b, c) == (a \div c) * b + MulDivQR(a % c, b, c)[1]

\* list[::-1]
Reverse(s) == [i \in 1..Len(s) |-> s[Len(s) + 1 - i]]

\* np.interp(x, xp, fp) for increasing xp: the end values outside the table,
\* fp[j] + slope * (x - xp[j]) on the interval that holds x.
Interp(x, xp, fp) ==
    IF x <= xp[1] THEN fp[1]
    ELSE IF x >= xp[Len(xp)] THEN fp[Len(fp)]
    ELSE LET j == CHOOSE i \in 1..(Len(xp) - 1) : xp[i] <= x /\ x < xp[i + 1]
         IN  fp[j] + MulDiv(fp[j + 1] - fp[j], x - xp[j], xp[j + 1] - xp[j])

\* A number too wide for one fixed-point integer is a pair <<i, f>> standing
\* for i + f * 1e-8; Wide normalises it to 0 <= f < 1e8.
Wide(i, f) == <<i + (f \div Unit), f % Unit>>

\* floor(a*b * 1e-8) for a and b in 0..1e8, by halves of four digits:
\* a*b = ah*bh * 1e8 + (ah*bl + al*bh) * 1e4 + al*bl.
MulUnit(a, b) ==
    LET ah == a \div 10000
        al == a % 10000
        bh == b \div 10000
        bl == b % 10000
        mid == ah * bl + al * bh
    IN  ah * bh + (mid \div 10000) + (((mid % 10000) * 10000 + al * bl) \div Unit)

\* acc * x + c for wide acc and c and x in 0..1e8 (units of 1e-8), rounded down
\* to 1e-8; the whole part of acc times x is exact.
WideMulAdd(acc, x, c) ==
    LET xh == x \div 10000
        xl == x % 10000
        high == acc[1] * xh
    IN  Wide((high \div 10000) + c[1],
             (high % 10000) * 10000 + acc[1] * xl + MulUnit(acc[2], x) + c[2])

\* np.polyval(coefficients, x) by Horner's rule: y = y * x + c for each
\* coefficient in turn, from y = 0.
RECURSIVE PolyvalFrom(_, _, _, _)
PolyvalFrom(coef, i, acc, x) ==
    IF i > Len(coef) THEN acc
    ELSE PolyvalFrom(coef, i + 1, WideMulAdd(acc, x, coef[i]), x)

\* The value in units of 1e-8.
Polyval(coef, x) ==
    LET y == PolyvalFrom(coef, 1, <<0, 0>>, x)
    IN  y[1] * Unit + y[2]

-----------------------------------------------------------------------------
(* gyroid.py: calibration of the gyroid *)

\* polynomial_constants, each as <<whole part, decimals in units of 1e-8>>:
\* -9.86328589e02 is <<-986, -32858900>>.
polynomial_constants ==
    << <<0 - 986, 0 - 32858900>>, <<4438, 58792000>>, <<0 - 8420, 0 - 57860000>>,
       <<8758, 29993000>>, <<0 - 5437, 0 - 54382000>>, <<2055, 12365000>>,
       <<0 - 460, 0 - 68382700>>, <<55, 89054640>>, <<0 - 5, 0 - 79899099>>,
       <<1, 51588868>> >>

\* _gyroid_porosity_to_t_value: Raise, or Return(t).
GyroidPorosityToTValue(porosity) ==
    IF porosity < 0 \/ porosity > Unit
    THEN Raise("ValueError", "_gyroid_porosity_to_t_value")
    ELSE Return(Polyval(polynomial_constants, porosity))

thickness_normalized ==
    << 400000, 1200000, 2000000, 2800000, 4000000, 4800000, 5600000, 6400000,
       7600000, 8400000, 9200000, 10400000, 11200000, 12000000, 13200000,
       14000000, 15200000, 16000000, 17200000, 18400000, 19200000, 20400000,
       21600000, 22800000, 24000000, 25200000, 26400000, 27600000, 29200000,
       30800000, 32400000, 34000000, 36000000, 38400000, 41200000, 45200000,
       52878729, 55713553, 58060658, 60113226, 62096699, 64089937, 66020603,
       67976467, 69945121, 71929966, 74095074, 76459663, 79095891, 82341727,
       88308550 >>

isovalues ==
    << 10000, 5659800, 11309600, 16959400, 22609200, 28259000, 33908800,
       39558600, 45208400, 50858200, 56508000, 62157800, 67807600, 73457400,
       79107200, 84757000, 90406800, 96056600, 101706400, 107356200,
       113006000, 118655800, 124305600, 129955400, 135605200, 141255000,
       146904800, 152554600, 158204400, 163854200, 169504000, 175153800,
       180803600, 186453400, 192103200, 197753000, 203402800, 209052600,
       214702400, 220352200, 226002000, 231651800, 237301600, 242951400,
       248601200, 254251000, 259900800, 265550600, 271200400, 276850200,
       282500000 >>

\* 0.88, the upper end of the calibrated thickness fraction.
ThicknessLimit == 88 * (Unit \div 100)

\* t_norm = thickness / lambda_xyz
TNorm(thickness, lambda_xyz) == MulDiv(thickness, Unit, lambda_xyz)

SheetThicknessToTValue_OpenAbove(thickness, lambda_xyz) ==
    LET t_norm == TNorm(thickness, lambda_xyz)
    IN  IF t_norm <= 0 \/ t_norm > ThicknessLimit
        THEN Raise("ValueError", "_sheet_thickness_to_t_value")
        ELSE Return(Interp(t_norm, thickness_normalized, isovalues))

\* _sheet_thickness_to_t_value: Raise, or Return(isovalue).
SheetThicknessToTValue(thickness, lambda_xyz) ==
    LET t_norm == TNorm(thickness, lambda_xyz)
    IN  IF t_norm <= 0 \/ t_norm >= ThicknessLimit
        THEN Raise("ValueError", "_sheet_thickness_to_t_value")
        ELSE Return(Interp(t_norm, thickness_normalized, isovalues))

-----------------------------------------------------------------------------
(* diamond.py: calibration of the diamond *)

POROSITY_literal ==
    << 100000000, 99726682, 99099292, 98260702, 97316512, 96080369, 94682719,
       92794339, 90347675, 87993800, 85341759, 82876072, 80354479, 77733497,
       75664976, 72975664, 70963049, 68292373, 66391569, 63714681, 61627524,
       59105931, 57000139, 54348098, 52335483, 50228040, 47664517, 45651902,
       42999861, 40894069, 38372476, 36285319, 33608431, 31707627, 29036951,
       27024336, 24335024, 22266503, 19645521, 17123928, 14658241, 12006200,
       9652325, 7205661, 5317281, 3919631, 2683488, 1739298, 900708, 273318,
       0 >>

POROSITY == Reverse(POROSITY_literal)

DIAMOND_T_VALUE_literal ==
    << -141421356, -135764502, -130107648, -124450793, -118793939, -113137085,
       -107480231, -101823376, -96166522, -90509668, -84852814, -79195959,
       -73539105, -67882251, -62225397, -56568542, -50911688, -45254834,
       -39597980, -33941125, -28284271, -22627417, -16970563, -11313708,
       -5656854, 0, 5656854, 11313708, 16970563, 22627417, 28284271, 33941125,
       39597980, 45254834, 50911688, 56568542, 62225397, 67882251, 73539105,
       79195959, 84852814, 90509668, 96166522, 101823376, 107480231,
       113137085, 118793939, 124450793, 130107648, 135764502, 141421356 >>

DIAMOND_T_VALUE_Unreversed == DIAMOND_T_VALUE_literal

DIAMOND_T_VALUE == Reverse(DIAMOND_T_VALUE_literal)

\* _diamond_porosity_to_t_value: np.interp, which never raises.
DiamondPorosityToTValue(porosity) == Interp(porosity, POROSITY, DIAMOND_T_VALUE)


-----------------------------------------------------------------------------
(* gyroid.py, diamond.py: field constructors.  A field is the record of    *)
(* the parameters its closure captures.                                    *)

\* gyroid_function: t from the porosity unless an isovalue is given.
GyroidFunction(lambda_x, lambda_y, lambda_z, theta_x, theta_y, theta_z, porosity, isovalue) ==
    LET cal == GyroidPorosityToTValue(porosity)
        f(t) == [family |-> "gyroid",
                 lambda |-> <<lambda_x, lambda_y, lambda_z>>,
                 theta |-> <<theta_x, theta_y, theta_z>>,
                 t |-> t]
    IN  IF IsNone(isovalue)
        THEN IF Raised(cal) THEN cal ELSE Return(f(cal.v))
        ELSE IF porosity # Half
             THEN Raise("ValueError", "gyroid_function")
             ELSE Return(f(Val(isovalue)))

\* diamond_function: takes no angles and no isovalue; never raises.
DiamondFunction(lambda_x, lambda_y, lambda_z, porosity) ==
    Return([family |-> "diamond",
            lambda |-> <<lambda_x, lambda_y, lambda_z>>,
            t |-> DiamondPorosityToTValue(porosity)])

\* f_outer - f_inner of two constructor outcomes; f_inner is built first, so
\* its error is the one that propagates.
Difference(f_outer, f_inner) ==
    IF Raised(f_inner) THEN f_inner
    ELSE IF Raised(f_outer) THEN f_outer
    ELSE Return([family |-> "difference", outer |-> f_outer.v, inner |-> f_inner.v])

\* np.mean of the three wavelengths.
Mean3(a, b, c) == (a + b + c) \div 3

Anisotropic(lambda_x, lambda_y, lambda_z) ==
    lambda_x # lambda_y \/ lambda_x # lambda_z \/ lambda_y # lambda_z

WithWarning(o, w) == [o EXCEPT !.warned = w]

\* The tail of sheet_gyroid_function rejecting only negative isovalues.
SheetFromIsovalue_ZeroAccepted(lambda_x, lambda_y, lambda_z, theta_x, theta_y, theta_z, porosity, isovalue) ==
    IF isovalue < 0 THEN Raise("ValueError", "sheet_gyroid_function: isovalue")
    ELSE IF porosity # Half THEN Raise("ValueError", "sheet_gyroid_function: porosity")
    ELSE LET d_t == isovalue \div 2
             f_inner == GyroidFunction(lambda_x, lambda_y, lambda_z, theta_x, theta_y,
                                       theta_z, Half, Some(0 - d_t))
             f_outer == GyroidFunction(lambda_x, lambda_y, lambda_z, theta_x, theta_y,
                                       theta_z, Half, Some(d_t))
         IN  Difference(f_outer, f_inner)

\* The tail of sheet_gyroid_function (lines 283-300), isovalue now a number.
SheetFromIsovalue(lambda_x, lambda_y, lambda_z, theta_x, theta_y, theta_z, porosity, isovalue) ==
    IF isovalue <= 0 THEN Raise("ValueError", "sheet_gyroid_function: isovalue")
    ELSE IF porosity # Half THEN Raise("ValueError", "sheet_gyroid_function: porosity")
    ELSE LET d_t == isovalue \div 2
             f_inner == GyroidFunction(lambda_x, lambda_y, lambda_z, theta_x, theta_y,
                                       theta_z, Half, Some(0 - d_t))
             f_outer == GyroidFunction(lambda_x, lambda_y, lambda_z, theta_x, theta_y,
                                       theta_z, Half, Some(d_t))
         IN  Difference(f_outer, f_inner)

\* sheet_gyroid_function: the porosity path, the sheet_thickness path, the
\* isovalue path.
SheetGyroidFunction(lambda_x, lambda_y, lambda_z, theta_x, theta_y, theta_z, porosity, isovalue, sheet_thickness) ==
    IF IsNone(isovalue) /\ IsNone(sheet_thickness)
    THEN LET d_porosity == (Unit - porosity) \div 2
             f_inner == GyroidFunction(lambda_x, lambda_y, lambda_z, theta_x, theta_y,
                                       theta_z, Half + d_porosity, None)
             f_outer == GyroidFunction(lambda_x, lambda_y, lambda_z, theta_x, theta_y,
                                       theta_z, Half - d_porosity, None)
         IN  Difference(f_outer, f_inner)
    ELSE IF ~IsNone(sheet_thickness)
    THEN IF ~IsNone(isovalue)
         THEN Raise("ValueError", "sheet_gyroid_function: sheet_thickness")
         ELSE LET w == Anisotropic(lambda_x, lambda_y, lambda_z)
                  cal == SheetThicknessToTValue(Val(sheet_thickness),
                                                Mean3(lambda_x, lambda_y, lambda_z))
              IN  WithWarning(IF Raised(cal) THEN cal
                              ELSE SheetFromIsovalue(lambda_x, lambda_y, lambda_z,
                                                     theta_x, theta_y, theta_z,
                                                     porosity, cal.v),
                              w)
    ELSE SheetFromIsovalue(lambda_x, lambda_y, lambda_z, theta_x, theta_y, theta_z,
                           porosity, Val(isovalue))

\* Python's binding of a defaulted parameter: the default when the caller
\* passes nothing.
Default(given, default) == IF IsNone(given) THEN default ELSE Val(given)

-----------------------------------------------------------------------------
(* euler.py: rotation matrices.  Angles in degrees are integers; radians,   *)
(* sines and cosines are in units of 1e-8.  Sines and cosines are rounded   *)
(* to 1e-6, so that a multiple of 90 degrees gives exactly 0, 1 or -1       *)
(* where floating point gives them to within 1e-15.                        *)

\* np.pi
Pi == 314159265
TwoPi == 2 * Pi
HalfPi == Pi \div 2

\* np.deg2rad: theta * pi / 180, with pi / 180 = 0.0174532925.
Deg2Rad(theta) == theta * 1745329 + ((theta * 25) \div 100)

Abs(a) == IF a < 0 THEN 0 - a ELSE a

\* a * b for signed a and b in units of 1e-8.
FixMul(a, b) ==
    LET m == MulUnit(Abs(a), Abs(b))
    IN  IF (a < 0) # (b < 0) THEN 0 - m ELSE m

\* sin y and cos y for 0 <= y <= pi/4 by their Taylor series to y^9 and y^10.
SinSeries(y) ==
    LET y2 == MulUnit(y, y)
        a4 == Unit - (y2 \div 72)
        a3 == Unit - (MulUnit(y2, a4) \div 42)
        a2 == Unit - (MulUnit(y2, a3) \div 20)
        a1 == Unit - (MulUnit(y2, a2) \div 6)
    IN  MulUnit(y, a1)

CosSeries(y) ==
    LET y2 == MulUnit(y, y)
        a5 == Unit - (y2 \div 90)
        a4 == Unit - (MulUnit(y2, a5) \div 56)
        a3 == Unit - (MulUnit(y2, a4) \div 30)
        a2 == Unit - (MulUnit(y2, a3) \div 12)
    IN  Unit - (MulUnit(y2, a2) \div 2)

\* sin y and cos y for 0 <= y <= pi/2.
SinFirstQuadrant(y) ==
    IF 2 * y <= HalfPi THEN SinSeries(y) ELSE CosSeries(HalfPi - y)
CosFirstQuadrant(y) ==
    IF 2 * y <= HalfPi THEN CosSeries(y) ELSE SinSeries(HalfPi - y)

RoundTrig(v) == ((v + 50) \div 100) * 100

\* np.sin and np.cos of an angle in radians.
Sin(x) ==
    LET r == x % TwoPi
        q == (r \div HalfPi) % 4
        y == r % HalfPi
    IN  RoundTrig(IF q = 0 THEN SinFirstQuadrant(y)
                  ELSE IF q = 1 THEN CosFirstQuadrant(y)
                  ELSE IF q = 2 THEN 0 - SinFirstQuadrant(y)
                  ELSE 0 - CosFirstQuadrant(y))

Cos(x) ==
    LET r == x % TwoPi
        q == (r \div HalfPi) % 4
        y == r % HalfPi
    IN  RoundTrig(IF q = 0 THEN CosFirstQuadrant(y)
                  ELSE IF q = 1 THEN 0 - SinFirstQuadrant(y)
                  ELSE IF q = 2 THEN 0 - CosFirstQuadrant(y)
                  ELSE SinFirstQuadrant(y))

\* A @ B for 3x3 matrices, and p @ A for a row vector p.
MatMul(A, B) ==
    [i \in 1..3 |->
        [j \in 1..3 |-> FixMul(A[i][1], B[1][j]) + FixMul(A[i][2], B[2][j])
                        + FixMul(A[i][3], B[3][j])]]
RowTimesMatrix(p, A) ==
    [j \in 1..3 |-> FixMul(p[1], A[1][j]) + FixMul(p[2], A[2][j]) + FixMul(p[3], A[3][j])]
Transpose(A) == [i \in 1..3 |-> [j \in 1..3 |-> A[j][i]]]
Identity == <<<<Unit, 0, 0>>, <<0, Unit, 0>>, <<0, 0, Unit>>>>

RotateAboutX(theta, degrees) ==
    LET t == IF degrees THEN Deg2Rad(theta) ELSE theta
    IN  <<<<Unit, 0, 0>>,
          <<0, Cos(t), 0 - Sin(t)>>,
          <<0, Sin(t), Cos(t)>>>>

RotateAboutY(theta, degrees) ==
    LET t == IF degrees THEN Deg2Rad(theta) ELSE theta
    IN  <<<<Cos(t), 0, Sin(t)>>,
          <<0, Unit, 0>>,
          <<0 - Sin(t), 0, Cos(t)>>>>

RotateAboutZ(theta, degrees) ==
    LET t == IF degrees THEN Deg2Rad(theta) ELSE theta
    IN  <<<<Cos(t), 0 - Sin(t), 0>>,
          <<Sin(t), Cos(t), 0>>,
          <<0, 0, Unit>>>>

\* rotate_about_xyz converting the angles and then passing them on as degrees,
\* so that each is converted a second time.
RotateAboutXyz_ConvertsTwice(theta_x, theta_y, theta_z, degrees) ==
    LET again(t) == FixMul(Deg2Rad(t), 1745329)
    IN  MatMul(MatMul(RotateAboutX(again(theta_x), FALSE),
                      RotateAboutY(again(theta_y), FALSE)),
               RotateAboutZ(again(theta_z), FALSE))

\* rotate_about_xyz multiplying in the order z, y, x.
RotateAboutXyz_ReversedOrder(theta_x, theta_y, theta_z, degrees) ==
    LET tx == IF degrees THEN Deg2Rad(theta_x) ELSE theta_x
        ty == IF degrees THEN Deg2Rad(theta_y) ELSE theta_y
        tz == IF degrees THEN Deg2Rad(theta_z) ELSE theta_z
    IN  MatMul(MatMul(RotateAboutZ(tz, FALSE), RotateAboutY(ty, FALSE)),
               RotateAboutX(tx, FALSE))

\* rotate_about_xyz: the angles are converted here and passed on as radians.
RotateAboutXyz(theta_x, theta_y, theta_z, degrees) ==
    LET tx == IF degrees THEN Deg2Rad(theta_x) ELSE theta_x
        ty == IF degrees THEN Deg2Rad(theta_y) ELSE theta_y
        tz == IF degrees THEN Deg2Rad(theta_z) ELSE theta_z
    IN  MatMul(MatMul(RotateAboutX(tx, FALSE), RotateAboutY(ty, FALSE)),
               RotateAboutZ(tz, FALSE))

\* cos(x) * sin(y) + cos(y) * sin(z) + cos(z) * sin(x)
Gyroid(x, y, z) ==
    FixMul(Cos(x), Sin(y)) + FixMul(Cos(y), Sin(z)) + FixMul(Cos(z), Sin(x))

\* The closure f(p) of gyroid_function (lines 72-84) at one point p, for the
\* field record f: the scaled point, the rotated point and the value.  The
\* locals are bound as members of one-element sets, each computed once.
GyroidField(f, p) ==
    IF \E i \in 1..3 : f.lambda[i] = 0
    THEN Raise("ZeroDivisionError", "gyroid_function.f")
    ELSE LET Rotated(scaled, R) ==
                 LET Value(rotated) ==
                         Return([scaled |-> scaled, rotated |-> rotated,
                                 value |-> Gyroid(rotated[1], rotated[2], rotated[3])
                                           - f.t])
                 IN  CHOOSE r \in {Value(rotated) :
                                      rotated \in {RowTimesMatrix(scaled, R)}} : TRUE
         IN  CHOOSE r \in {Rotated(scaled, R) :
                              scaled \in {<<MulDiv(p[1], TwoPi, f.lambda[1]),
                                            MulDiv(p[2], TwoPi, f.lambda[2]),
                                            MulDiv(p[3], TwoPi, f.lambda[3])>>},
                              R \in {RotateAboutXyz(f.theta[1], f.theta[2], f.theta[3],
                                                    TRUE)}} : TRUE

-----------------------------------------------------------------------------
(* State.  pc is the position of the current call or run, op the function  *)
(* that was called, args what the caller passed, out the outcome, mc the   *)
(* state of the generate_stl / marching_cubes stage of a command-line run. *)

NoRun == [grid |-> None, extractor |-> "not called", mesh |-> None, written |-> FALSE]

Init ==
    /\ pc = "idle"
    /\ op = "none"
    /\ args = <<>>
    /\ out = <<>>
    /\ mc = NoRun

-----------------------------------------------------------------------------
(* Calibration curves applied to one input and then to a second one *)

CalSteps == 50
MaxCalThickness == 12

\* Midpoints of consecutive entries of an increasing table.
Midpoints(xp) == {(xp[i] + xp[i + 1]) \div 2 : i \in 1..(Len(xp) - 1)}
Knots(xp) == {xp[i] : i \in 1..Len(xp)}

\* A regular grid over [-0.04, 1.04], the knots of the diamond table and the
\* midpoints between them.
CalPorosities ==
    {(Unit \div CalSteps) * k : k \in (0 - 2)..(CalSteps + 2)}
        \cup Knots(POROSITY) \cup Midpoints(POROSITY)

\* Thicknesses for the wavelength 1000: every fraction from 0 to 0.012 in
\* steps of 0.001, then steps of 0.05 up to 0.9.
CalLambda == 1000
CalThicknesses == (0..MaxCalThickness) \cup {50 * k : k \in 1..18}

CallCalibration(fn, x, result) ==
    /\ pc \in {"idle", "cal"}
    /\ op \in {"none", fn}
    /\ Len(args) < 2
    /\ pc' = "cal"
    /\ op' = fn
    /\ args' = Append(args, x)
    /\ out' = Append(out, result)
    /\ UNCHANGED mc

CallGyroidPorosityToTValue ==
    \E porosity \in CalPorosities :
        CallCalibration("_gyroid_porosity_to_t_value", porosity,
                        GyroidPorosityToTValue(porosity))

CallDiamondPorosityToTValue ==
    \E porosity \in CalPorosities :
        CallCalibration("_diamond_porosity_to_t_value", porosity,
                        Return(DiamondPorosityToTValue(porosity)))

CallSheetThicknessToTValue ==
    \E thickness \in CalThicknesses :
        CallCalibration("_sheet_thickness_to_t_value", thickness,
                        SheetThicknessToTValue(thickness, CalLambda))

NextCal ==
    \/ CallGyroidPorosityToTValue
    \/ CallDiamondPorosityToTValue
    \/ CallSheetThicknessToTValue

SpecCal == Init /\ [][NextCal]_vars

\* Two calls of one calibration function, both of which returned.
TwoReturned(fn) ==
    /\ pc = "cal"
    /\ op = fn
    /\ Len(out) = 2
    /\ Returned(out[1])
    /\ Returned(out[2])

PorosityCalibrations == {"_gyroid_porosity_to_t_value", "_diamond_porosity_to_t_value"}

InUnitInterval(p) == 0 <= p /\ p <= Unit

\* C4 (as amended): for each surface family the porosity-to-isovalue
\* calibration is monotonically non-increasing in porosity: for all p1 <= p2 in
\* [0,1], t(p1) >= t(p2).
C4_CalibrationNonIncreasing ==
    \A fn \in PorosityCalibrations :
        (TwoReturned(fn) /\ InUnitInterval(args[1]) /\ InUnitInterval(args[2])
            /\ args[1] <= args[2])
        => out[1].v >= out[2].v

\* C4 (as claimed): for all p1 <= p2 in [0,1], t(p1) <= t(p2), for the gyroid
\* polynomial and for the diamond table with its linear interpolation.
C4_CalibrationNonDecreasing ==
    \A fn \in PorosityCalibrations :
        (TwoReturned(fn) /\ InUnitInterval(args[1]) /\ InUnitInterval(args[2])
            /\ args[1] <= args[2])
        => out[1].v <= out[2].v

\* Two interpolated (off-knot) diamond porosities in (0,1), the larger one
\* calibrated to the strictly smaller t-value.
C4_Witness ==
    /\ TwoReturned("_diamond_porosity_to_t_value")
    /\ args[1] \in Midpoints(POROSITY)
    /\ args[2] \in Midpoints(POROSITY)
    /\ args[1] < args[2]
    /\ out[1].v > out[2].v

\* C5 (as claimed): for a fixed wavelength and valid thicknesses t1 < t2
\* (0 < t1/lambda < t2/lambda < 0.88), the sheet isovalue of t1 is strictly
\* smaller than that of t2, also for fractions below the first table entry.
C5_ThicknessStrictlyIncreasing ==
    (TwoReturned("_sheet_thickness_to_t_value") /\ args[1] < args[2])
    => out[1].v < out[2].v

-----------------------------------------------------------------------------
(* Direct calls of the three field constructors.  The caller's arguments   *)
(* are drawn first; a call applies one constructor to them.                *)

PBelow == 2
MaxIso == 2
MaxThickness == 140
MaxCoarse == 3

\* Wavelengths are multiples of 3 length units, so that the mean of three of
\* them is a whole number of units.
Lambdas == {75, 150}
LambdaTriples == Lambdas \X Lambdas \X Lambdas
ThetaTriples == {<<0, 0, 0>>, <<30, 45, 60>>}

\* Porosities from -0.2 to 2.2 in steps of 0.1.
Porosities == {(Unit \div 10) * k : k \in (0 - PBelow)..(20 + PBelow)}
\* Isovalues from -0.2 to 0.2 in steps of 0.1.
Isovalues == {(Unit \div 10) * k : k \in (0 - MaxIso)..MaxIso}
Thicknesses == (0 - 1)..MaxThickness
CoarseThicknesses == {33 * k : k \in 0..MaxCoarse}

Optional(S) == {None} \cup {Some(v) : v \in S}

\* Any combination of the three threshold controls, and the sheet_thickness
\* alone over every thickness up to MaxThickness.
FnArguments ==
    [lambda : LambdaTriples, theta : ThetaTriples, porosity : Optional(Porosities),
     isovalue : Optional(Isovalues), sheet_thickness : Optional(CoarseThicknesses)]
    \cup
    [lambda : LambdaTriples, theta : {<<0, 0, 0>>}, porosity : {None},
     isovalue : {None}, sheet_thickness : {Some(t) : t \in Thicknesses}]

InitFn ==
    /\ pc = "constructor"
    /\ op = "none"
    /\ args \in FnArguments
    /\ out = <<>>
    /\ mc = NoRun

\* A call of fn from the position `from`, ending with `result`.
Called(from, fn, result) ==
    /\ pc = from
    /\ pc' = "called"
    /\ op' = fn
    /\ out' = result
    /\ UNCHANGED <<args, mc>>

\* gyroid_function has no sheet_thickness parameter.
CallGyroidFunction ==
    /\ pc = "constructor"
    /\ IsNone(args.sheet_thickness)
    /\ Called("constructor", "gyroid_function",
              GyroidFunction(args.lambda[1], args.lambda[2], args.lambda[3],
                             args.theta[1], args.theta[2], args.theta[3],
                             Default(args.porosity, Half), args.isovalue))

\* diamond_function has the wavelengths and the porosity as its parameters.
CallDiamondFunction ==
    /\ pc = "constructor"
    /\ IsNone(args.sheet_thickness)
    /\ IsNone(args.isovalue)
    /\ args.theta = <<0, 0, 0>>
    /\ Called("constructor", "diamond_function",
              DiamondFunction(args.lambda[1], args.lambda[2], args.lambda[3],
                              Default(args.porosity, Half)))

CallSheetGyroidFunction ==
    Called("constructor", "sheet_gyroid_function",
           SheetGyroidFunction(args.lambda[1], args.lambda[2], args.lambda[3],
                               args.theta[1], args.theta[2], args.theta[3],
                               Default(args.porosity, Half), args.isovalue,
                               args.sheet_thickness))

NextFn ==
    \/ CallGyroidFunction
    \/ CallDiamondFunction
    \/ CallSheetGyroidFunction

SpecFn == InitFn /\ [][NextFn]_vars


\* What the caller supplied.
Supplied(a) ==
    {c \in {"porosity", "isovalue", "sheet_thickness"} : ~IsNone(a[c])}

\* A call that went down the porosity path: neither isovalue nor sheet_thickness.
PorosityPath == IsNone(args.isovalue) /\ IsNone(args.sheet_thickness)

\* C1 (as claimed): gyroid_function, diamond_function and
\* sheet_gyroid_function on the porosity path raise for every porosity < 0 and
\* every porosity > 1.
C1_PorosityOutsideUnitIntervalRaises ==
    (pc = "called" /\ PorosityPath /\ ~IsNone(args.porosity)
        /\ ~InUnitInterval(Val(args.porosity)))
    => Raised(out)

\* C2 (as claimed): every call of gyroid_function or sheet_gyroid_function
\* that supplies two or more of porosity, isovalue and sheet_thickness raises,
\* a supplied porosity of 0.5 included.
C2_TwoControlsRaise ==
    (pc = "called" /\ op \in {"gyroid_function", "sheet_gyroid_function"}
        /\ Cardinality(Supplied(args)) >= 2)
    => Raised(out)

\* A sheet_gyroid_function call with the sheet_thickness alone.
ThicknessAlone ==
    /\ pc = "called"
    /\ op = "sheet_gyroid_function"
    /\ Supplied(args) = {"sheet_thickness"}

LambdaSum(a) == a.lambda[1] + a.lambda[2] + a.lambda[3]

\* sheet_thickness / mean(lambda) <= 0 or >= 0.88, in exact arithmetic:
\* t / (sum/3) >= 88/100  <=>  300 t >= 88 sum.
ThicknessRatioOutside(a) ==
    \/ Val(a.sheet_thickness) <= 0
    \/ 300 * Val(a.sheet_thickness) >= 88 * LambdaSum(a)

\* C3: sheet_gyroid_function with a sheet_thickness alone raises if and only if
\* sheet_thickness / mean(lambda_x, lambda_y, lambda_z) is <= 0 or >= 0.88;
\* otherwise it returns the difference of two gyroid fields at +-isovalue/2.
C3_ThicknessRaisesIffOutside ==
    ThicknessAlone =>
        /\ Raised(out) <=> ThicknessRatioOutside(args)
        /\ Returned(out) =>
              /\ out.v.family = "difference"
              /\ out.v.outer.t > 0
              /\ out.v.inner.t = 0 - out.v.outer.t

\* Unequal wavelengths with mean 100 and a thickness of exactly 0.88 * 100:
\* the call raises, after the anisotropy warning.
C3_Witness ==
    /\ ThicknessAlone
    /\ Anisotropic(args.lambda[1], args.lambda[2], args.lambda[3])
    /\ 300 * Val(args.sheet_thickness) = 88 * LambdaSum(args)
    /\ Raised(out)
    /\ out.warned

\* sheet_gyroid_function called with an isovalue and nothing else.
IsovalueAlone ==
    /\ op = "sheet_gyroid_function"
    /\ ~IsNone(args.isovalue)
    /\ IsNone(args.sheet_thickness)
    /\ IsNone(args.porosity)

\* The gyroid field with the call's wavelengths and angles and the isovalue t.
GyroidWith(t) == [family |-> "gyroid", lambda |-> args.lambda, theta |-> args.theta, t |-> t]

\* C13: sheet_gyroid_function with an explicit isovalue v, no sheet_thickness
\* and the default porosity raises if and only if v <= 0; for v > 0 it returns
\* f_outer - f_inner of two gyroid fields with the call's wavelengths and
\* angles, f_outer with isovalue +v/2 and f_inner with isovalue -v/2.
C13_IsovalueSplitInHalf ==
    IsovalueAlone =>
        LET v == Val(args.isovalue)
        IN  /\ Raised(out) <=> v <= 0
            /\ v > 0 =>
                  /\ out.v.family = "difference"
                  /\ 2 * out.v.outer.t = v
                  /\ out.v.outer = GyroidWith(out.v.outer.t)
                  /\ out.v.inner = GyroidWith(0 - out.v.outer.t)

\* An isovalue of 0.2 on a rotated, anisotropic lattice gives the halves +0.1
\* and -0.1.
C13_Witness ==
    /\ IsovalueAlone
    /\ Val(args.isovalue) = 2 * (Unit \div 10)
    /\ args.theta = <<30, 45, 60>>
    /\ args.lambda = <<75, 150, 75>>
    /\ Returned(out)
    /\ out.v.outer.t = Unit \div 10
    /\ out.v.inner.t = 0 - (Unit \div 10)

-----------------------------------------------------------------------------
(* optimization_functions.py: gyroid_box, diamond_box, sheet_gyroid_box.   *)
(* A Python value passed as n_periods is a record: [type |-> "int", v],    *)
(* [type |-> "float", v] (v in tenths), or [type |-> "tuple" / "list",     *)
(* items].                                                                 *)

PyInt(v) == [type |-> "int", v |-> v]
PyFloat(tenths) == [type |-> "float", v |-> tenths]
PyTuple(items) == [type |-> "tuple", items |-> items]
PyList(items) == [type |-> "list", items |-> items]
IsSequence(x) == x.type \in {"tuple", "list"}

\* Lines 35-39: an int becomes a 3-tuple, a tuple must have length 3, anything
\* else passes through untouched.
NormalisePeriods(n_periods) ==
    IF n_periods.type = "int"
    THEN Return(PyTuple(<<n_periods.v, n_periods.v, n_periods.v>>))
    ELSE IF n_periods.type = "tuple"
    THEN IF Len(n_periods.items) # 3
         THEN Raise("ValueError", "n_periods")
         ELSE Return(n_periods)
    ELSE Return(n_periods)

BoxSize_SwappedAxes(lambda_x, lambda_y, lambda_z, n_periods) ==
    IF ~IsSequence(n_periods) THEN Raise("TypeError", "n_periods[0]")
    ELSE IF Len(n_periods.items) < 3 THEN Raise("IndexError", "n_periods[i]")
    ELSE Return(<<lambda_x * n_periods.items[2],
                  lambda_y * n_periods.items[1],
                  lambda_z * n_periods.items[3]>>)

\* Lines 41-43: dx, dy, dz = lambda * n_periods[0], [1], [2].  Subscripting a
\* float is a TypeError, an index past the end an IndexError.
BoxSize(lambda_x, lambda_y, lambda_z, n_periods) ==
    IF ~IsSequence(n_periods) THEN Raise("TypeError", "n_periods[0]")
    ELSE IF Len(n_periods.items) < 3 THEN Raise("IndexError", "n_periods[i]")
    ELSE Return(<<lambda_x * n_periods.items[1],
                  lambda_y * n_periods.items[2],
                  lambda_z * n_periods.items[3]>>)

\* The body shared by the three *_box functions: the period count, the box
\* size, the infill, then box & infill.
BoxAndInfill(lambda_x, lambda_y, lambda_z, n_periods, infill) ==
    LET n == NormalisePeriods(n_periods)
        size == BoxSize(lambda_x, lambda_y, lambda_z, n.v)
    IN  IF Raised(n) THEN n
        ELSE IF Raised(size) THEN size
        ELSE IF Raised(infill) THEN infill
        ELSE Return([family |-> "intersection",
                     box |-> [size |-> size.v],
                     infill |-> infill.v])

GyroidBox(lambda_x, lambda_y, lambda_z, theta_x, theta_y, theta_z, porosity, n_periods) ==
    BoxAndInfill(lambda_x, lambda_y, lambda_z, n_periods,
                 GyroidFunction(lambda_x, lambda_y, lambda_z, theta_x, theta_y,
                                theta_z, porosity, None))

\* The parameters of diamond_function, and the keywords diamond_box calls it
\* with (lines 96-104).
DiamondFunctionParameters == {"lambda_x", "lambda_y", "lambda_z", "porosity"}
DiamondBoxKeywords ==
    {"lambda_x", "lambda_y", "lambda_z", "theta_x", "theta_y", "theta_z", "porosity"}

\* A keyword that names no parameter is a TypeError at the call.
DiamondBox(lambda_x, lambda_y, lambda_z, theta_x, theta_y, theta_z, porosity, n_periods) ==
    BoxAndInfill(lambda_x, lambda_y, lambda_z, n_periods,
                 IF DiamondBoxKeywords \subseteq DiamondFunctionParameters
                 THEN DiamondFunction(lambda_x, lambda_y, lambda_z, porosity)
                 ELSE Raise("TypeError", "diamond_function"))

SheetGyroidBox(lambda_x, lambda_y, lambda_z, theta_x, theta_y, theta_z, porosity, n_periods) ==
    BoxAndInfill(lambda_x, lambda_y, lambda_z, n_periods,
                 SheetGyroidFunction(lambda_x, lambda_y, lambda_z, theta_x, theta_y,
                                     theta_z, porosity, None, None))

MaxPeriods == 2
MaxSeqLen == 4

\* Sequences of period counts of every length up to MaxSeqLen.
PeriodSeqs == UNION {[1..n -> 1..MaxPeriods] : n \in 0..MaxSeqLen}

\* An int, the float 2.5, tuples and lists.
PeriodValues ==
    {PyInt(n) : n \in 1..MaxPeriods} \cup {PyFloat(25)}
        \cup {PyTuple(q) : q \in PeriodSeqs} \cup {PyList(q) : q \in PeriodSeqs}

\* Porosities -0.1, 0.3, 0.5 and 1.2.
BoxPorosities == {(Unit \div 10) * k : k \in {0 - 1, 3, 5, 12}}

BoxArguments ==
    [lambda : LambdaTriples, theta : ThetaTriples, porosity : BoxPorosities,
     n_periods : PeriodValues]

InitBox ==
    /\ pc = "box"
    /\ op = "none"
    /\ args \in BoxArguments
    /\ out = <<>>
    /\ mc = NoRun

CallGyroidBox ==
    Called("box", "gyroid_box",
           GyroidBox(args.lambda[1], args.lambda[2], args.lambda[3], args.theta[1],
                     args.theta[2], args.theta[3], args.porosity, args.n_periods))

CallDiamondBox ==
    Called("box", "diamond_box",
           DiamondBox(args.lambda[1], args.lambda[2], args.lambda[3], args.theta[1],
                      args.theta[2], args.theta[3], args.porosity, args.n_periods))

CallSheetGyroidBox ==
    Called("box", "sheet_gyroid_box",
           SheetGyroidBox(args.lambda[1], args.lambda[2], args.lambda[3],
                          args.theta[1], args.theta[2], args.theta[3], args.porosity,
                          args.n_periods))

NextBox ==
    \/ CallGyroidBox
    \/ CallDiamondBox
    \/ CallSheetGyroidBox

SpecBox == InitBox /\ [][NextBox]_vars

BoxFunctions == {"gyroid_box", "diamond_box", "sheet_gyroid_box"}

\* The two shapes the contract allows: a single integer, a sequence of
\* exactly three counts.
ContractShape(n_periods) ==
    \/ n_periods.type = "int"
    \/ IsSequence(n_periods) /\ Len(n_periods.items) = 3

\* The counts per axis that a contract-shaped n_periods stands for.
PeriodTriple(n_periods) ==
    IF n_periods.type = "int" THEN <<n_periods.v, n_periods.v, n_periods.v>>
    ELSE n_periods.items

\* C6 (as claimed): in every *_box function an n_periods that is neither a
\* single integer nor a sequence of exactly three counts is rejected with an
\* error and is never partially used.  (The claim names the parameter error;
\* the formula asks only for some error, the least the claim says.)
C6_OtherShapesRejected ==
    (pc = "called" /\ op \in BoxFunctions /\ ~ContractShape(args.n_periods))
    => Raised(out)

\* C7: whenever gyroid_box or sheet_gyroid_box returns for a single integer n
\* or a 3-sequence (nx, ny, nz), the box intersected with the field has size
\* exactly (lambda_x*nx, lambda_y*ny, lambda_z*nz), each axis with its own
\* wavelength and its own count.
C7_BoxSizeIsLambdaTimesPeriods ==
    (pc = "called" /\ op \in {"gyroid_box", "sheet_gyroid_box"} /\ Returned(out)
        /\ ContractShape(args.n_periods))
    => LET n == PeriodTriple(args.n_periods)
       IN  /\ out.v.family = "intersection"
           /\ out.v.box.size = <<args.lambda[1] * n[1], args.lambda[2] * n[2],
                                 args.lambda[3] * n[3]>>

\* sheet_gyroid_box returned for wavelengths (75, 150, 150) and the tuple
\* (2, 1, 2): the box is 150 x 150 x 300.
C7_Witness ==
    /\ pc = "called"
    /\ op = "sheet_gyroid_box"
    /\ Returned(out)
    /\ args.lambda = <<75, 150, 150>>
    /\ args.n_periods = PyTuple(<<2, 1, 2>>)
    /\ out.v.box.size = <<150, 150, 300>>

\* C8 (as claimed): diamond_box with valid parameters returns a
\* box-intersected diamond field that carries the three angles, as gyroid does.
C8_DiamondBoxReturnsRotatedField ==
    (pc = "called" /\ op = "diamond_box" /\ InUnitInterval(args.porosity)
        /\ ContractShape(args.n_periods))
    => /\ Returned(out)
       /\ out.v.family = "intersection"
       /\ out.v.infill.family = "diamond"
       /\ "theta" \in DOMAIN out.v.infill
       /\ out.v.infill.theta = args.theta

-----------------------------------------------------------------------------
(* tpmsgenerator.py: the command line.  An option the user did not give is  *)
(* None; argparse then stores the option's default.                         *)

DefaultNumPeriods == 4
DefaultStepSize == 2

\* Python truthiness of an optional int: None and 0 are false.
Truthy(x) == ~IsNone(x) /\ Val(x) # 0

AxisPeriods(a) == <<a.num_x_periods, a.num_y_periods, a.num_z_periods>>
AnyAxis(a) == \E i \in 1..3 : Truthy(AxisPeriods(a)[i])
AllAxes(a) == \A i \in 1..3 : Truthy(AxisPeriods(a)[i])

\* Lines 90-131: the checks in the order of the code; Return holds the chosen
\* *_box function and the num_periods tuple.
Validate(a) ==
    LET num_periods == Default(a.num_periods, DefaultNumPeriods)
    IN  IF a.tpms \notin {"gyroid", "diamond", "sheet_gyroid"}
        THEN Raise("ValueError", "tpms")
        ELSE IF \E i \in 1..3 : a.lambda[i] < 0
        THEN Raise("ValueError", "lambda")
        ELSE IF \E i \in 1..3 : a.theta[i] < 0 \/ a.theta[i] > 90
        THEN Raise("ValueError", "theta")
        ELSE IF a.porosity < 0 \/ a.porosity > Unit
        THEN Raise("ValueError", "porosity")
        ELSE IF AnyAxis(a)
        THEN IF ~AllAxes(a)
             THEN Raise("ValueError", "num_x_periods, num_y_periods, num_z_periods")
             ELSE IF num_periods # DefaultNumPeriods
             THEN Raise("ValueError", "num_periods")
             ELSE Return([tpms_function |-> a.tpms,
                          num_periods |-> <<Val(a.num_x_periods), Val(a.num_y_periods),
                                            Val(a.num_z_periods)>>])
        ELSE Return([tpms_function |-> a.tpms,
                     num_periods |-> <<num_periods, num_periods, num_periods>>])

\* Lines 133-142: tpms_function(lambda..., theta..., porosity, n_periods=num_periods).
TpmsFunction(name, a, num_periods) ==
    IF name = "gyroid"
    THEN GyroidBox(a.lambda[1], a.lambda[2], a.lambda[3], a.theta[1], a.theta[2],
                   a.theta[3], a.porosity, PyTuple(num_periods))
    ELSE IF name = "diamond"
    THEN DiamondBox(a.lambda[1], a.lambda[2], a.lambda[3], a.theta[1], a.theta[2],
                    a.theta[3], a.porosity, PyTuple(num_periods))
    ELSE SheetGyroidBox(a.lambda[1], a.lambda[2], a.lambda[3], a.theta[1], a.theta[2],
                        a.theta[3], a.porosity, PyTuple(num_periods))

-----------------------------------------------------------------------------
(* stl/marching_cubes.py, stl/generate.py *)

\* np.arange(start, stop, step) for step > 0.
ArangeLen(start, stop, step) ==
    IF stop <= start THEN 0 ELSE ((stop - start) + (step - 1)) \div step
Arange(start, stop, step) ==
    [i \in 1..ArangeLen(start, stop, step) |-> start + (i - 1) * step]

\* Lines 24-26: the three coordinate ranges.
SampleGrid(bounds, step) ==
    [X |-> Arange(bounds[1][1], bounds[2][1], step),
     Y |-> Arange(bounds[1][2], bounds[2][2], step),
     Z |-> Arange(bounds[1][3], bounds[2][3], step)]

MarchingCubesTry_Propagates(attempt) == attempt

\* Lines 29-51: what marching_cubes gives back for the outcome of its try
\* block: the triangles, or the empty array when anything in it raised.
MarchingCubesTry(attempt) ==
    IF Raised(attempt) THEN Return(<<>>) ELSE attempt

-----------------------------------------------------------------------------
(* A command-line run: validation, the *_box constructor, generate_stl.     *)

MaxAxisPeriods == 2

CliNames == {"gyroid", "diamond", "sheet_gyroid", "schwarz"}
CliLambdaTriples ==
    {<<75, 75, 75>>, <<75, 150, 75>>, <<0, 75, 75>>, <<75, 0 - 75, 75>>}
CliThetaTriples ==
    {<<0, 0, 0>>, <<90, 45, 0>>, <<0 - 1, 0, 0>>, <<0, 91, 0>>}
\* Porosities -0.1, 0, 0.5, 1 and 1.2.
CliPorosities == {(Unit \div 10) * k : k \in {0 - 1, 0, 5, 10, 12}}

CliArguments ==
    [tpms : CliNames, lambda : CliLambdaTriples, theta : CliThetaTriples,
     porosity : CliPorosities,
     step_size : Optional({10}),
     num_periods : Optional({2, DefaultNumPeriods}),
     num_x_periods : Optional(0..MaxAxisPeriods),
     num_y_periods : Optional(0..MaxAxisPeriods),
     num_z_periods : Optional(0..MaxAxisPeriods)]

\* What the bounds estimator of the sdf library may answer, and what the
\* extraction routine may do: return triangles (possibly none) or raise.
EstimatedBounds ==
    {<<<<0 - 2, 0 - 2, 0 - 2>>, <<2, 2, 2>>>>, <<<<0, 0, 0>>, <<4, 2, 6>>>>}
ExtractorOutcomes ==
    {Return(<<>>), Return(<<"t1", "t2">>),
     Raise("RuntimeError", "PyScaffolder.marching_cubes"),
     Raise("ValueError", "reshape")}

InitRun ==
    /\ pc = "main"
    /\ op = "tpmsgenerator"
    /\ args \in CliArguments
    /\ out = <<>>
    /\ mc = NoRun

\* Lines 90-131 of tpmsgenerator.py.
ValidateArguments ==
    /\ pc = "main"
    /\ out' = Validate(args)
    /\ pc' = IF Raised(out') THEN "failed" ELSE "validated"
    /\ UNCHANGED <<op, args, mc>>

\* Lines 133-142 of tpmsgenerator.py.
ConstructField ==
    /\ pc = "validated"
    /\ out' = TpmsFunction(out.v.tpms_function, args, out.v.num_periods)
    /\ pc' = IF Raised(out') THEN "failed" ELSE "constructed"
    /\ UNCHANGED <<op, args, mc>>

\* generate_stl calls marching_cubes with bounds=None: lines 9-10.  The
\* estimator evaluates the field, whose closure divides 2*pi by each wavelength
\* (gyroid.py line 75); the call is outside the try block.
EstimateBounds ==
    /\ pc = "constructed"
    /\ IF \E i \in 1..3 : args.lambda[i] = 0
       THEN /\ out' = Raise("ZeroDivisionError", "gyroid_function.f")
            /\ pc' = "failed"
            /\ UNCHANGED mc
       ELSE /\ \E b \in EstimatedBounds :
                  mc' = [bounds |-> b, grid |-> None, extractor |-> "not called",
                         mesh |-> None, written |-> FALSE]
            /\ pc' = "bounds"
            /\ UNCHANGED out
    /\ UNCHANGED <<op, args>>

\* marching_cubes lines 12-27: the step and the sample grid.
BuildGrid ==
    /\ pc = "bounds"
    /\ mc' = [mc EXCEPT !.grid =
                 Some(SampleGrid(mc.bounds, Default(args.step_size, DefaultStepSize)))]
    /\ pc' = "grid"
    /\ UNCHANGED <<op, args, out>>

\* marching_cubes lines 29-51: the try block around evaluation and extraction.
Extract ==
    /\ pc = "grid"
    /\ \E attempt \in ExtractorOutcomes :
          LET result == MarchingCubesTry(attempt)
          IN  /\ mc' = [mc EXCEPT
                           !.extractor = IF Raised(attempt) THEN "raised" ELSE "returned",
                           !.mesh = IF Raised(result) THEN None ELSE Some(result.v)]
              /\ pc' = IF Raised(result) THEN "failed" ELSE "meshed"
              /\ out' = IF Raised(result) THEN result ELSE out
    /\ UNCHANGED <<op, args>>

\* generate_stl line 25: sdf.write_binary_stl(fpath, points).
WriteStl ==
    /\ pc = "meshed"
    /\ mc' = [mc EXCEPT !.written = TRUE]
    /\ pc' = "done"
    /\ UNCHANGED <<op, args, out>>

NextRun ==
    \/ ValidateArguments
    \/ ConstructField
    \/ EstimateBounds
    \/ BuildGrid
    \/ Extract
    \/ WriteStl

SpecRun == InitRun /\ [][NextRun]_vars

\* C9: when the extraction raises, marching_cubes returns an empty mesh and the
\* error does not propagate: the run goes on to the writer with a zero-length
\* array.
C9_ExtractionErrorGivesEmptyMesh ==
    mc.extractor = "raised" =>
        /\ pc \in {"meshed", "done"}
        /\ mc.mesh = Some(<<>>)
        /\ Returned(out)

\* The extraction raised and the empty mesh reached the writer.
C9_Witness ==
    /\ pc = "done"
    /\ mc.extractor = "raised"
    /\ mc.mesh = Some(<<>>)
    /\ mc.written

\* The per-axis period options the user gave.
AxesGiven(a) == {i \in 1..3 : ~IsNone(AxisPeriods(a)[i])}

\* Some but not all per-axis counts, or -n together with a per-axis count.
InconsistentPeriods(a) ==
    /\ AxesGiven(a) # {}
    /\ AxesGiven(a) # 1..3 \/ ~IsNone(a.num_periods)

InvalidParameter(a) ==
    \/ a.porosity < 0 \/ a.porosity > Unit
    \/ \E i \in 1..3 : a.theta[i] < 0 \/ a.theta[i] > 90
    \/ a.tpms \notin {"gyroid", "diamond", "sheet_gyroid"}
    \/ InconsistentPeriods(a)

\* C10 (as claimed): in no run that receives an invalid parameter (porosity
\* outside [0,1], angle outside [0,90], unknown surface name, inconsistent
\* period counts) is the sample grid built, the extractor invoked or the mesh
\* writer called.
C10_InvalidParameterFailsBeforeGrid ==
    (op = "tpmsgenerator" /\ InvalidParameter(args))
    => (IsNone(mc.grid) /\ mc.extractor = "not called" /\ ~mc.written)

\* The field has been constructed: the run is past the *_box call, or failed
\* when the constructed field was first evaluated.
FieldConstructed ==
    \/ pc \in {"constructed", "bounds", "grid", "meshed", "done"}
    \/ pc = "failed" /\ out.error = "ZeroDivisionError"

\* C14 (as claimed): a command-line run in which lambda_x, lambda_y or lambda_z
\* is <= 0, exactly 0 included, fails before any field is constructed.
C14_NonPositiveWavelengthFails ==
    (op = "tpmsgenerator" /\ \E i \in 1..3 : args.lambda[i] <= 0)
    => ~FieldConstructed

\* C15 (as claimed): -n together with any of -nx, -ny, -nz fails, whatever the
\* value of -n; some but not all of -nx, -ny, -nz fails; and per-axis counts that
\* were supplied are never replaced by the uniform count.
C15_PeriodOptionsExclusive ==
    (op = "tpmsgenerator" /\ pc = "validated") =>
        /\ ~(~IsNone(args.num_periods) /\ AxesGiven(args) # {})
        /\ AxesGiven(args) \in {{}, 1..3}
        /\ AxesGiven(args) = 1..3 =>
              out.v.num_periods = <<Val(args.num_x_periods), Val(args.num_y_periods),
                                    Val(args.num_z_periods)>>

-----------------------------------------------------------------------------
(* marching_cubes on a gyroid field: the sampling of lines 24-34.  Arrays   *)
(* are sequences, indexed from 1; grid indices i, j, k count from 0 as in   *)
(* the code.                                                               *)

\* A numpy array: the sequence with every entry computed.
Array(s) == s \o <<>>

\* _cartesian_product(X, Y, Z) of the sdf library: one row per grid point, the
\* last axis varying fastest.
CartesianProduct(X, Y, Z) ==
    Array([n \in 1..(Len(X) * Len(Y) * Len(Z)) |->
              <<X[((n - 1) \div (Len(Y) * Len(Z))) + 1],
                Y[(((n - 1) \div Len(Z)) % Len(Y)) + 1],
                Z[((n - 1) % Len(Z)) + 1]>>])

\* f(P): the field at every row of P, or the error its evaluation raises.
EvaluateField(f, P) ==
    IF \E n \in 1..Len(P) : Raised(GyroidField(f, P[n]))
    THEN GyroidField(f, P[CHOOSE n \in 1..Len(P) : Raised(GyroidField(f, P[n]))])
    ELSE Return(Array([n \in 1..Len(P) |-> GyroidField(f, P[n]).v.value]))

\* -f(P) without the minus sign.
Negate_Omitted(F) == F

\* The unary minus of line 32.
Negate(F) == Array([n \in 1..Len(F) |-> 0 - F[n]])

\* F.reshape((nx, ny, nz)): the entry at index (i, j, k), in C order.
Reshape3(F, nx, ny, nz) ==
    [i \in 0..(nx - 1) |-> [j \in 0..(ny - 1) |-> [k \in 0..(nz - 1) |->
        F[((i * ny + j) * nz) + k + 1]]]]

\* A.reshape(-1) in C order: the last index varying fastest.
Flatten_RowMajor(A, nx, ny, nz) ==
    Array([n \in 1..(nx * ny * nz) |->
              A[(n - 1) \div (ny * nz)][((n - 1) \div nz) % ny][(n - 1) % nz]])

\* A.reshape(-1, order="F"): the first index varying fastest.
FlattenFortran(A, nx, ny, nz) ==
    Array([n \in 1..(nx * ny * nz) |->
              A[(n - 1) % nx][((n - 1) \div nx) % ny][(n - 1) \div (nx * ny)]])

MaxGrid == 3

McLambdaTriples == {<<8, 8, 8>>, <<4, 8, 12>>, <<0, 8, 8>>}
McThetaTriples == {<<0, 0, 0>>, <<30, 45, 60>>}
\* Boxes from the origin, up to MaxGrid units along x and z and 2 along y.
McBounds == {<<<<0, 0, 0>>, <<a, b, c>>>> : a, c \in 1..MaxGrid, b \in 1..2}
McSteps == {1, 2}

McArguments ==
    [lambda : McLambdaTriples, theta : McThetaTriples, bounds : McBounds, step : McSteps]

InitMc ==
    /\ pc = "marching_cubes"
    /\ op = "none"
    /\ args \in McArguments
    /\ out = <<>>
    /\ mc = NoRun

\* marching_cubes(gyroid_function(lambda..., theta...), step, bounds), its
\* locals in the order of the code: the grid (lines 24-26), P (27), and inside
\* the try block f(P) and its negative (32), the reshaped Fxyz (34) and the
\* extraction routine, which answers with `attempt` (36-47); an error in the
\* block gives the empty array (49-51).
CallMarchingCubes ==
    /\ pc = "marching_cubes"
    /\ \E f \in {GyroidFunction(args.lambda[1], args.lambda[2], args.lambda[3],
                                args.theta[1], args.theta[2], args.theta[3], Half, None)} :
       \E grid \in {SampleGrid(args.bounds, args.step)} :
       \E P \in {CartesianProduct(grid.X, grid.Y, grid.Z)} :
       \E samples \in {EvaluateField(f.v, P)} :
       \E attempt \in ExtractorOutcomes :
          IF Raised(samples)
          THEN /\ mc' = [bounds |-> args.bounds, grid |-> Some(grid), Fxyz |-> None,
                         grid_size |-> <<Len(grid.X), Len(grid.Y), Len(grid.Z)>>,
                         extractor |-> "not called",
                         mesh |-> Some(MarchingCubesTry(samples).v), written |-> FALSE]
               /\ out' = MarchingCubesTry(samples)
          ELSE /\ mc' = [bounds |-> args.bounds, grid |-> Some(grid),
                         Fxyz |-> Some(FlattenFortran(
                                          Reshape3(Negate(samples.v), Len(grid.X),
                                                   Len(grid.Y), Len(grid.Z)),
                                          Len(grid.X), Len(grid.Y), Len(grid.Z))),
                         grid_size |-> <<Len(grid.X), Len(grid.Y), Len(grid.Z)>>,
                         extractor |-> IF Raised(attempt) THEN "raised" ELSE "returned",
                         mesh |-> Some(MarchingCubesTry(attempt).v), written |-> FALSE]
               /\ out' = MarchingCubesTry(attempt)
    /\ pc' = "called"
    /\ op' = "marching_cubes"
    /\ UNCHANGED args

NextMc == CallMarchingCubes

SpecMc == InitMc /\ [][NextMc]_vars

\* marching_cubes handed an array to the extraction routine.
ArrayPassed == op = "marching_cubes" /\ ~IsNone(mc.Fxyz)

\* The grid indices, and the field of the call at the grid point (i, j, k).
GridIndices ==
    LET g == Val(mc.grid)
    IN  (0..(Len(g.X) - 1)) \X (0..(Len(g.Y) - 1)) \X (0..(Len(g.Z) - 1))
FieldAt(i, j, k) ==
    LET g == Val(mc.grid)
        f == GyroidFunction(args.lambda[1], args.lambda[2], args.lambda[3],
                            args.theta[1], args.theta[2], args.theta[3], Half, None)
    IN  GyroidField(f.v, <<g.X[i + 1], g.Y[j + 1], g.Z[k + 1]>>).v.value

\* C16: the array passed to the extraction routine holds, for each grid index
\* (i, j, k), exactly one entry equal to -f(X[i], Y[j], Z[k]) and no other
\* entries: it has as many entries as there are grid points, and every value
\* occurs in it as often as among the negated samples.
C16_ArrayIsNegatedSamples ==
    ArrayPassed =>
        LET F == Val(mc.Fxyz)
            negated == {<<g, 0 - FieldAt(g[1], g[2], g[3])>> : g \in GridIndices}
        IN  /\ Len(F) = Cardinality(GridIndices)
            /\ \A n \in 1..Len(F) :
                  Cardinality({m \in 1..Len(F) : F[m] = F[n]})
                  = Cardinality({s \in negated : s[2] = F[n]})

\* A grid of 3 x 2 x 3 points on a rotated anisotropic lattice whose samples
\* are not all zero was passed on.
C16_Witness ==
    /\ ArrayPassed
    /\ mc.grid_size = <<3, 2, 3>>
    /\ args.theta = <<30, 45, 60>>
    /\ args.lambda = <<4, 8, 12>>
    /\ \E n \in 1..Len(Val(mc.Fxyz)) : Val(mc.Fxyz)[n] > 0
    /\ \E g \in GridIndices : FieldAt(g[1], g[2], g[3]) < 0

\* C17 (amended): the array passed to the extraction routine is ordered with
\* the first sampled axis (x) varying fastest: for grid counts (nx, ny, nz) the
\* sample for grid index (i, j, k) is at flat position i + nx*(j + ny*k).
C17_FirstAxisFastest ==
    ArrayPassed =>
        LET nx == mc.grid_size[1]
            ny == mc.grid_size[2]
        IN  \A g \in GridIndices :
               Val(mc.Fxyz)[(g[1] + (nx * (g[2] + (ny * g[3])))) + 1]
               = 0 - FieldAt(g[1], g[2], g[3])

\* C17 (as claimed): the first sampled axis varies slowest: the sample for grid
\* index (i, j, k) is at flat position (i*ny + j)*nz + k.
C17_FirstAxisSlowest ==
    ArrayPassed =>
        LET ny == mc.grid_size[2]
            nz == mc.grid_size[3]
        IN  \A g \in GridIndices :
               Val(mc.Fxyz)[(((g[1] * ny) + g[2]) * nz) + g[3] + 1]
               = 0 - FieldAt(g[1], g[2], g[3])

\* On a 3 x 2 x 3 grid the second entry of the array is the sample one step
\* along x, and it differs from the sample one step along z.
C17_Witness ==
    /\ ArrayPassed
    /\ mc.grid_size = <<3, 2, 3>>
    /\ Val(mc.Fxyz)[2] = 0 - FieldAt(1, 0, 0)
    /\ FieldAt(1, 0, 0) # FieldAt(0, 0, 1)

-----------------------------------------------------------------------------
(* Rotations: rotate_about_xyz on an angle triple, and a gyroid field       *)
(* evaluated at one point.                                                 *)

MaxQuarterTurns == 4
MaxPoint == 1

\* Multiples of 90 degrees from -90 on, and three angles that are not.
Angles == {90 * k : k \in (0 - 1)..MaxQuarterTurns} \cup {30, 45, 60}
AngleTriples == Angles \X Angles \X Angles
RotLambdaTriples == {<<4, 4, 4>>, <<4, 8, 12>>}
Points == (0..MaxPoint) \X (0..MaxPoint) \X (0..MaxPoint)

RotArguments == [theta : AngleTriples, lambda : RotLambdaTriples, p : Points]

InitRot ==
    /\ pc = "rotation"
    /\ op = "none"
    /\ args \in RotArguments
    /\ out = <<>>
    /\ mc = NoRun

CallRotateAboutXyz ==
    /\ pc = "rotation"
    /\ Called("rotation", "rotate_about_xyz",
              Return(RotateAboutXyz(args.theta[1], args.theta[2], args.theta[3], TRUE)))

\* gyroid_function(lambda..., theta...) with the default porosity, and the
\* field it returns evaluated at the point p.
EvaluateGyroidField ==
    /\ pc = "rotation"
    /\ LET f == GyroidFunction(args.lambda[1], args.lambda[2], args.lambda[3],
                               args.theta[1], args.theta[2], args.theta[3], Half, None)
       IN  Called("rotation", "gyroid_function.f",
                  IF Raised(f) THEN f ELSE GyroidField(f.v, args.p))

NextRot ==
    \/ CallRotateAboutXyz
    \/ EvaluateGyroidField

SpecRot == InitRot /\ [][NextRot]_vars

\* Exact sine and cosine of a multiple of 90 degrees, as integers.
QuarterTurns(theta) == \A i \in 1..3 : theta[i] % 90 = 0
QSin(theta) == <<0, 1, 0, 0 - 1>>[((theta \div 90) % 4) + 1]
QCos(theta) == <<1, 0, 0 - 1, 0>>[((theta \div 90) % 4) + 1]

\* Every entry of A - B is at most tol in size.
Within(A, B, tol) == \A i, j \in 1..3 : Abs(A[i][j] - B[i][j]) <= tol

\* C11: rotate_about_xyz(0, 0, 0) is the identity; R * transpose(R) is the
\* identity, exactly on triples of multiples of 90 degrees, where every entry is
\* 0, 1 or -1, and to within 1e-5 on the other triples; each angle is converted
\* from degrees to radians once, so that the entries sin(theta_y),
\* -sin(theta_x)cos(theta_y) and -cos(theta_y)sin(theta_z) have their exact
\* values on multiples of 90 degrees.
C11_RotationIsOrthonormal ==
    (op = "rotate_about_xyz") =>
        LET R == out.v
            th == args.theta
        IN  /\ th = <<0, 0, 0>> => R = Identity
            /\ Within(MatMul(R, Transpose(R)), Identity, 1000)
            /\ QuarterTurns(th) =>
                  /\ MatMul(R, Transpose(R)) = Identity
                  /\ \A i, j \in 1..3 : R[i][j] \in {0, Unit, 0 - Unit}
                  /\ R[1][3] = Unit * QSin(th[2])
                  /\ R[2][3] = 0 - (Unit * QSin(th[1]) * QCos(th[2]))
                  /\ R[1][2] = 0 - (Unit * QCos(th[2]) * QSin(th[3]))

\* A triple of multiples of 90 degrees, all three turning, has its matrix.
C11_Witness ==
    /\ op = "rotate_about_xyz"
    /\ args.theta = <<90, 180, 270>>
    /\ out.v = <<<<0, 0 - Unit, 0>>, <<0, 0, Unit>>, <<0 - Unit, 0, 0>>>>

\* The product Rx * Ry * Rz written out, for multiples of 90 degrees, with
\* integer entries.
QuarterTurnProduct(th) ==
    LET sx == QSin(th[1])
        cx == QCos(th[1])
        sy == QSin(th[2])
        cy == QCos(th[2])
        sz == QSin(th[3])
        cz == QCos(th[3])
    IN  <<<<cy * cz, 0 - (cy * sz), sy>>,
          <<(sx * sy * cz) + (cx * sz), (cx * cz) - (sx * sy * sz), 0 - (sx * cy)>>,
          <<(sx * sz) - (cx * sy * cz), (cx * sy * sz) + (sx * cz), cx * cy>>>>

\* The rotation about one axis, and the product of the three in a given order
\* of the axes.
AxisRotation(axis, th) ==
    IF axis = 1 THEN RotateAboutX(th[1], TRUE)
    ELSE IF axis = 2 THEN RotateAboutY(th[2], TRUE)
    ELSE RotateAboutZ(th[3], TRUE)
OrderProduct(order, th) ==
    MatMul(MatMul(AxisRotation(order[1], th), AxisRotation(order[2], th)),
           AxisRotation(order[3], th))
Orders == {o \in (1..3) \X (1..3) \X (1..3) : {o[1], o[2], o[3]} = 1..3}
\* The order x, y, z with the factors of axes a and b exchanged.
Exchanged(a, b) == [i \in 1..3 |-> IF i = a THEN b ELSE IF i = b THEN a ELSE i]

\* The matrix is Rx * Ry * Rz, and the field right-multiplies the scaled row
\* vector by it.
ProductInOrderAppliedOnRight ==
    /\ op = "rotate_about_xyz" =>
          /\ out.v = OrderProduct(<<1, 2, 3>>, args.theta)
          /\ QuarterTurns(args.theta) =>
                out.v = [i \in 1..3 |-> [j \in 1..3 |->
                            Unit * QuarterTurnProduct(args.theta)[i][j]]]
    /\ (op = "gyroid_function.f" /\ Returned(out)) =>
          /\ out.v.scaled = [i \in 1..3 |-> MulDiv(args.p[i], TwoPi, args.lambda[i])]
          /\ QuarterTurns(args.theta) =>
                out.v.rotated =
                    [j \in 1..3 |->
                        (out.v.scaled[1] * QuarterTurnProduct(args.theta)[1][j])
                        + (out.v.scaled[2] * QuarterTurnProduct(args.theta)[2][j])
                        + (out.v.scaled[3] * QuarterTurnProduct(args.theta)[3][j])]

\* C12 (amended): the combined rotation is the product Rx * Ry * Rz in that
\* order, the gyroid field applies it by right-multiplying the row vector of the
\* point after the 2*pi/lambda scaling, and whenever two of the angles are odd
\* multiples of 90 degrees (about different axes) the product with those two
\* factors exchanged is a different matrix.
C12_ProductOrderMatters ==
    /\ ProductInOrderAppliedOnRight
    /\ (op = "rotate_about_xyz" /\ QuarterTurns(args.theta)) =>
          \A a, b \in 1..3 :
             (a < b /\ args.theta[a] % 180 = 90 /\ args.theta[b] % 180 = 90)
             => out.v # OrderProduct(Exchanged(a, b), args.theta)

\* C12 (as claimed): the same, with the last part for any two angles that are
\* non-zero multiples of 90 degrees: the product in some other order of the
\* factors is then a different matrix.
C12_AnyNonZeroQuarterTurns ==
    /\ ProductInOrderAppliedOnRight
    /\ (op = "rotate_about_xyz" /\ QuarterTurns(args.theta)
        /\ \E a, b \in 1..3 : a < b /\ args.theta[a] # 0 /\ args.theta[b] # 0)
       => \E o \in Orders : out.v # OrderProduct(o, args.theta)

\* A field with a quarter turn about z and unequal wavelengths, evaluated
\* at a point off the axes: the rotated point is (y, -x, z) of the scaled one.
C12_Witness ==
    /\ op = "gyroid_function.f"
    /\ Returned(out)
    /\ args.theta = <<0, 0, 90>>
    /\ args.lambda = <<4, 8, 12>>
    /\ args.p = <<1, 1, 1>>
    /\ out.v.rotated = <<out.v.scaled[2], 0 - out.v.scaled[1], out.v.scaled[3]>>
    /\ out.v.scaled[1] # out.v.scaled[2]

-----------------------------------------------------------------------------
(* Everything together *)

Next == NextCal \/ NextFn \/ NextBox \/ NextRun \/ NextRot \/ NextMc

Spec ==
    (Init \/ InitFn \/ InitBox \/ InitRun \/ InitRot \/ InitMc) /\ [][Next]_vars

=============================================================================
